---- MODULE Spec2Model ----
(***************************************************************************)
(* weather_cli.py: a command-line weather lookup.  An invocation of main() *)
(* either clears the cache directory, or checks the API key, resolves the  *)
(* city to a location ID (geocode request), obtains the weather payload    *)
(* for that ID (fresh cache file, else weather request and cache write)    *)
(* and prints the formatted report.  The state is the cache directory, the *)
(* wall clock and, per invocation, its arguments, locals and position.     *)
(***************************************************************************)
EXTENDS Integers, Sequences, FiniteSets, TLC

(* ------------------------------ bounds -------------------------------- *)
\* how many times the wall clock advances in a behaviour
MaxTicks == 3
\* the largest Celsius reading the formatter is exercised with
MaxTemp == 21

(* ------------------------- program constants -------------------------- *)
CACHE_EXPIRY == 30 * 60
DEFAULT_CITY == "beijing"
PLACEHOLDER_KEY == "your_api_key_here"

(* --------------------------- input domains ---------------------------- *)
\* invocations of the program; the sequential specification runs only the
\* first, the concurrent one runs both
Procs == {1, 2}
SeqProcs == {1}
LocationIDs == {"101010100", "101020100"}
\* the positional city left out (argparse then takes DEFAULT_CITY)
NoArg == "<none>"
CityArgs == {NoArg, "shanghai"}
Units == {"c", "f"}
\* QWEATHER_API_KEY in the environment; Unset when the variable is missing
Unset == "<unset>"
KeyEnvs == {Unset, "", PLACEHOLDER_KEY, "k3y"}
\* seconds by which the wall clock advances in one step
TickSteps == {1, CACHE_EXPIRY - 1}
\* Celsius readings: -18 C is just below 0 F, 19 and 20 are the spec's example
MinTemp == 0 - 18
Temps == {MinTemp, 0 - 5, 0, 9} \cup (19 .. MaxTemp)

(* ------------------------------ payloads ------------------------------ *)
\* A provider response of the weather endpoint.  code is the provider's
\* status; nowSec tells whether the 'now' section is there ("full"), there
\* but lacking fields ("partial"), or absent; forId is the location the
\* request was made for (the provider answers for the ID in the URL).
Payload(code, id, sec, t, fl) ==
  [code |-> code, forId |-> id, nowSec |-> sec, temp |-> t, feelsLike |-> fl,
   humidity |-> 50, windSpeed |-> 10, text |-> "Sunny"]

\* Python's None as the value of weather_data
NoneData == Payload("None", "", "absent", 0, 0)

\* the bodies the weather endpoint may answer with for location id
OkBodies(id) ==
  { Payload("200", id, "full", 20, 19),
    Payload("200", id, "absent", 0, 0),
    Payload("200", id, "partial", 20, 0) }
ErrBodies(id) == { Payload("401", id, "absent", 0, 0) }
Bodies(id) == OkBodies(id) \cup ErrBodies(id)

\* outcomes of requests.get + raise_for_status + response.json
NetFailures == {"ConnectionError", "HTTPError", "JSONDecodeError"}

(* ----------------------------- cache files ---------------------------- *)
\* One file per location ID: whether it exists, its mtime, how many
\* characters it holds, and the payload whose JSON text its first characters
\* are (NoneData: none).  The file is the JSON text of head exactly when
\* size = JsonLen(head); an empty file, or a text followed by the rest of a
\* longer one, is not JSON and json.load raises on it.
NoFile == [exists |-> FALSE, mtime |-> 0, size |-> 0, head |-> NoneData]
File(m, n, d) == [exists |-> TRUE, mtime |-> m, size |-> n, head |-> d]
EmptyDir == [i \in LocationIDs |-> NoFile]

VARIABLES
  cache,      \* CACHE_DIR: location ID -> file
  clock,      \* time.time(), in seconds
  ticks,      \* how often the clock has advanced
  pc,         \* per invocation: position in main()
  args,       \* per invocation: parsed arguments and environment
  loc,        \* per invocation: location_id, found_city
  wd,         \* per invocation: weather_data
  hist,       \* per invocation: what it has done so far
  out         \* per invocation: printed output and exit status

vars == <<cache, clock, ticks, pc, args, loc, wd, hist, out>>

(* ------------------------------ formatter ----------------------------- *)
\* str() of an integer, as in an f-string
IntStr(n) == IF n < 0 THEN "-" \o ToString(0 - n) ELSE ToString(n)

\* f"{x:.1f}" for a value given in tenths
Fixed1(tenths) ==
  LET a == IF tenths < 0 THEN 0 - tenths ELSE tenths
  IN  (IF tenths < 0 THEN "-" ELSE "") \o ToString(a \div 10) \o "." \o ToString(a % 10)

\* a variant that divides before it multiplies, in whole numbers
FahrenheitTenthsTruncated(c) == ((c \div 5) * 9 + 32) * 10

\* float(c) * 9/5 + 32, in tenths of a degree (exact for a whole number c)
FahrenheitTenths(c) == c * 18 + 320

\* lines 116-121: the two temperature strings for the chosen unit
TempDisplay(c, unit) ==
  IF unit = "f" THEN Fixed1(FahrenheitTenths(c)) \o "F" ELSE Fixed1(c * 10) \o "C"

FeelsLike(fl, unit) ==
  IF unit = "f" THEN Fixed1(FahrenheitTenths(fl)) \o "F" ELSE IntStr(fl) \o "C"

\* weather_icons.get(now['text'], default)
Icon(text) ==
  CASE text = "Sunny" -> "sun"
    [] text = "Cloudy" -> "cloud-sun"
    [] text = "Overcast" -> "cloud"
    [] text = "Rain" -> "rain"
    [] text = "Snow" -> "snow"
    [] text = "Thunder" -> "bolt"
    [] text \in {"Fog", "Haze"} -> "fog"
    [] OTHER -> "default"

\* datetime.now(tz).strftime('%Y-%m-%d %H:%M'): the clock cut to the minute
HeaderTime(t) == t \div 60

Output(kind, icon, city, time, temp, feels, hum, wind) ==
  [kind |-> kind, icon |-> icon, city |-> city, time |-> time, temp |-> temp,
   feels |-> feels, humidity |-> hum, wind |-> wind]

NoOutput == Output("none", "", "", 0, "", "", "", "")
\* the string returned when there is no payload or no 'now' section
NoDataOutput == Output("no-data", "", "", 0, "", "", "", "")
\* an uncaught KeyError from a 'now' section lacking fields
RaisedOutput == Output("raise", "", "", 0, "", "", "", "")

\* not weather_data: None is falsy, a response dict (never empty) is truthy
Falsy(d) == d.code = "None"

\* format_weather_output(weather_data, city_name, unit), called at clock t
format_weather_output(d, city, unit, t) ==
  IF Falsy(d) \/ d.nowSec = "absent" THEN NoDataOutput
  ELSE IF d.nowSec = "partial" THEN RaisedOutput
  ELSE Output("report", Icon(d.text), city, HeaderTime(t),
              TempDisplay(d.temp, unit), FeelsLike(d.feelsLike, unit),
              IntStr(d.humidity) \o "%", IntStr(d.windSpeed) \o " km/h")

(* ------------------------------ json text ---------------------------- *)
\* the characters json.dump writes for a payload: those of its values; the
\* 'now' section adds its keys and the values it holds
JsonLen(d) ==
  Len(d.code) +
  ( CASE d.nowSec = "absent" -> 0
      [] d.nowSec = "partial" -> 8 + Len(IntStr(d.temp))
      [] OTHER -> 40 + Len(IntStr(d.temp)) + Len(IntStr(d.feelsLike))
                     + Len(IntStr(d.humidity)) + Len(IntStr(d.windSpeed))
                     + Len(d.text) )

\* json.load succeeds on the file
ValidJson(f) == f.exists /\ f.head.code # "None" /\ f.size = JsonLen(f.head)

\* open(cache_file, 'w'): create or truncate, mtime set
open_w(f, t) == File(t, 0, NoneData)

\* a variant that closes the file without writing
dumpNothing(f, d, t) == f

\* a variant that leaves a file somebody else has written to
dumpUnlessWritten(f, d, t) == IF f.size > 0 THEN f ELSE File(t, JsonLen(d), d)

\* a variant that loses the last character of the text
dumpShort(f, d, t) == File(t, JsonLen(d) - 1, d)

\* json.dump + close on a descriptor opened by open_w: the text goes to
\* offset 0 of whatever the file holds by then
dump(f, d, t) ==
  File(t, IF f.size > JsonLen(d) THEN f.size ELSE JsonLen(d), d)

\* a variant that also serves an entry of age CACHE_EXPIRY
CacheFreshInclusive(now, mtime) == now - mtime <= CACHE_EXPIRY

\* now - file_mtime < CACHE_EXPIRY
CacheFresh(now, mtime) == now - mtime < CACHE_EXPIRY

\* a variant that takes any parsed body for a success
SuccessAnyBody(b) == TRUE

\* data.get('code') == '200'
Success(b) == b.code = "200"

\* lines 59-61: the cache file is there and fresh
CacheHit(f, now) == f.exists /\ CacheFresh(now, f.mtime)

(* ------------------------------ geocoder ------------------------------ *)
\* what the geocode request comes back with
GeoResponses ==
  { [kind |-> "error", id |-> ""], [kind |-> "notfound", id |-> ""] }
    \cup { [kind |-> "found", id |-> i] : i \in LocationIDs }
GeoName(id) == "city " \o id

(* ------------------------- per-invocation state ----------------------- *)
\* API_KEY = os.getenv('QWEATHER_API_KEY', '')
ApiKey(env) == IF env = Unset THEN "" ELSE env
\* a variant that lets the placeholder key through
KeyInvalidEmptyOnly(key) == key = ""

\* not API_KEY or API_KEY == 'your_api_key_here'
KeyInvalid(key) == key = "" \/ key = PLACEHOLDER_KEY

\* a variant for which only an explicit 0 is a success
ExitCodeNoneFails(ret) == IF ret = "0" THEN 0 ELSE 1

\* exit(main()): None and 0 end the process with status 0, 1 with status 1,
\* an uncaught exception with a traceback and status 1
ExitCode(ret) == IF ret \in {"None", "0"} THEN 0 ELSE 1

NoArgs == [city |-> NoArg, unit |-> "c", clear |-> FALSE, keyEnv |-> Unset]
\* (None, None): falsy for "not location_id"
NoLoc == [id |-> "", name |-> ""]
\* a variant that falls back to a default location when nothing is found
get_location_id_default(r) ==
  IF r.kind = "found" THEN [id |-> r.id, name |-> GeoName(r.id)]
  ELSE [id |-> "101010100", name |-> DEFAULT_CITY]

\* get_location_id on a geocoder response
get_location_id(r) ==
  IF r.kind = "found" THEN [id |-> r.id, name |-> GeoName(r.id)] ELSE NoLoc
NoOut == [ret |-> "running", exit |-> 0 - 1, msg |-> "none", printed |-> NoOutput]
\* What an invocation has done: requests sent, cache files stat'ed, read and
\* opened for writing; the geocoder's answer; the clock and the file as the
\* cache check saw them and what it decided; whether json.load raised; the
\* body of a successful weather request; whether its json.dump is the latest
\* on its file; and how many cache files there were when it started.
Hist0 ==
  [geoReq |-> 0, wReq |-> 0, reads |-> 0, writes |-> 0, stats |-> 0,
   geo |-> "none", chkNow |-> 0, seen |-> NoFile, hit |-> FALSE,
   broken |-> FALSE, got |-> NoneData, last |-> FALSE, files0 |-> 0]

Finished(p, ret, msg, printed) ==
  /\ pc' = [pc EXCEPT ![p] = "done"]
  /\ out' = [out EXCEPT ![p] = [ret |-> ret, exit |-> ExitCode(ret),
                                msg |-> msg, printed |-> printed]]

Init ==
  /\ cache = EmptyDir
  /\ clock = 0
  /\ ticks = 0
  /\ pc = [p \in Procs |-> "idle"]
  /\ args = [p \in Procs |-> NoArgs]
  /\ loc = [p \in Procs |-> NoLoc]
  /\ wd = [p \in Procs |-> NoneData]
  /\ hist = [p \in Procs |-> Hist0]
  /\ out = [p \in Procs |-> NoOut]

(* ------------------------------- actions ------------------------------ *)
\* the wall clock advances
Tick ==
  /\ ticks < MaxTicks
  /\ \E d \in TickSteps : clock' = clock + d
  /\ ticks' = ticks + 1
  /\ UNCHANGED <<cache, pc, args, loc, wd, hist, out>>

\* a new process: load the environment, parse the arguments
Begin(p, keyEnvs, cityArgs, units, clears) ==
  /\ pc[p] = "idle"
  /\ \E k \in keyEnvs, c \in cityArgs, u \in units, cl \in clears :
       args' = [args EXCEPT ![p] = [city |-> c, unit |-> u, clear |-> cl, keyEnv |-> k]]
  /\ pc' = [pc EXCEPT ![p] = "main"]
  /\ loc' = [loc EXCEPT ![p] = NoLoc]
  /\ wd' = [wd EXCEPT ![p] = NoneData]
  /\ hist' = [hist EXCEPT ![p] =
                 [Hist0 EXCEPT !.files0 = Cardinality({i \in LocationIDs : cache[i].exists})]]
  /\ out' = [out EXCEPT ![p] = NoOut]
  /\ UNCHANGED <<cache, clock, ticks>>

Start(p) == Begin(p, KeyEnvs, CityArgs, Units, BOOLEAN)

\* --clear-cache: rmtree + makedirs, "return" without a value
ClearCache(p) ==
  /\ pc[p] = "main"
  /\ args[p].clear
  /\ cache' = EmptyDir
  /\ Finished(p, "None", "cleared", NoOutput)
  /\ UNCHANGED <<clock, ticks, args, loc, wd, hist>>

\* the API key check fails: return 1
KeyCheckFail(p) ==
  /\ pc[p] = "main"
  /\ ~args[p].clear
  /\ KeyInvalid(ApiKey(args[p].keyEnv))
  /\ Finished(p, "1", "key", NoOutput)
  /\ UNCHANGED <<cache, clock, ticks, args, loc, wd, hist>>

\* get_location_id: one geocode request; "if not location_id: return 1"
Geocode(p) ==
  /\ pc[p] = "main"
  /\ ~args[p].clear
  /\ ~KeyInvalid(ApiKey(args[p].keyEnv))
  /\ \E r \in GeoResponses :
       /\ hist' = [hist EXCEPT ![p].geoReq = @ + 1, ![p].geo = r.kind]
       /\ loc' = [loc EXCEPT ![p] = get_location_id(r)]
       /\ IF get_location_id(r).id = ""
            THEN Finished(p, "1",
                          IF r.kind = "error" THEN "geo-fail" ELSE "city-notfound",
                          NoOutput)
            ELSE /\ pc' = [pc EXCEPT ![p] = "check"]
                 /\ UNCHANGED out
  /\ UNCHANGED <<cache, clock, ticks, args, wd>>

\* get_weather_data, lines 55-61: now = time.time(), exists, getmtime
CacheCheck(p) ==
  /\ pc[p] = "check"
  /\ LET f == cache[loc[p].id]
     IN  /\ hist' = [hist EXCEPT ![p].stats = @ + 1, ![p].chkNow = clock,
                                 ![p].seen = f, ![p].hit = CacheHit(f, clock)]
         /\ pc' = [pc EXCEPT ![p] = IF CacheHit(f, clock) THEN "read" ELSE "request"]
  /\ UNCHANGED <<cache, clock, ticks, args, loc, wd, out>>

\* lines 62-64: open the file and json.load it; a JSONDecodeError (or a
\* missing file) is outside the try and ends the process with a traceback
ReadCache(p) ==
  /\ pc[p] = "read"
  /\ LET f == cache[loc[p].id]
     IN  IF ValidJson(f)
           THEN /\ wd' = [wd EXCEPT ![p] = f.head]
                /\ hist' = [hist EXCEPT ![p].reads = @ + 1]
                /\ pc' = [pc EXCEPT ![p] = "format"]
                /\ UNCHANGED out
           ELSE /\ hist' = [hist EXCEPT ![p].reads = @ + 1, ![p].broken = TRUE]
                /\ Finished(p, "raise", "traceback", NoOutput)
                /\ UNCHANGED wd
  /\ UNCHANGED <<cache, clock, ticks, args, loc>>

\* lines 67-75 and 80-89: one weather request; anything but a body with
\* code '200' gives None, and main returns 1
Request(p) ==
  /\ pc[p] = "request"
  /\ \/ /\ \E e \in NetFailures : Finished(p, "1", "net-fail", NoOutput)
        /\ hist' = [hist EXCEPT ![p].wReq = @ + 1]
     \/ \E b \in Bodies(loc[p].id) :
          IF Success(b)
            THEN /\ hist' = [hist EXCEPT ![p].wReq = @ + 1, ![p].got = b]
                 /\ pc' = [pc EXCEPT ![p] = "open"]
                 /\ UNCHANGED out
            ELSE /\ hist' = [hist EXCEPT ![p].wReq = @ + 1]
                 /\ Finished(p, "1", "api-error", NoOutput)
  /\ UNCHANGED <<cache, clock, ticks, args, loc, wd>>

\* line 77: open(cache_file, 'w')
OpenWrite(p) ==
  /\ pc[p] = "open"
  /\ cache' = [cache EXCEPT ![loc[p].id] = open_w(@, clock)]
  /\ hist' = [hist EXCEPT ![p].writes = @ + 1]
  /\ pc' = [pc EXCEPT ![p] = "dump"]
  /\ UNCHANGED <<clock, ticks, args, loc, wd, out>>

\* lines 78-79: json.dump, close, return data
Dump(p) ==
  /\ pc[p] = "dump"
  /\ cache' = [cache EXCEPT ![loc[p].id] = dump(@, hist[p].got, clock)]
  /\ wd' = [wd EXCEPT ![p] = hist[p].got]
  /\ hist' = [q \in Procs |->
                 IF q = p THEN [hist[q] EXCEPT !.last = TRUE]
                 ELSE IF loc[q].id = loc[p].id THEN [hist[q] EXCEPT !.last = FALSE]
                 ELSE hist[q]]
  /\ pc' = [pc EXCEPT ![p] = "format"]
  /\ UNCHANGED <<clock, ticks, args, loc, out>>

\* lines 173-180: "if not weather_data: return 1", format, print, return 0
Format(p) ==
  /\ pc[p] = "format"
  /\ LET o == format_weather_output(wd[p], loc[p].name, args[p].unit, clock)
     IN  IF Falsy(wd[p]) THEN Finished(p, "1", "none", NoOutput)
         ELSE IF o.kind = "raise" THEN Finished(p, "raise", "traceback", NoOutput)
         ELSE Finished(p, "0", o.kind, o)
  /\ UNCHANGED <<cache, clock, ticks, args, loc, wd, hist>>

\* exit(main()): the process is gone, its locals with it
Exit(p) ==
  /\ pc[p] = "done"
  /\ pc' = [pc EXCEPT ![p] = "idle"]
  /\ args' = [args EXCEPT ![p] = NoArgs]
  /\ loc' = [loc EXCEPT ![p] = NoLoc]
  /\ wd' = [wd EXCEPT ![p] = NoneData]
  /\ hist' = [hist EXCEPT ![p] = Hist0]
  /\ out' = [out EXCEPT ![p] = NoOut]
  /\ UNCHANGED <<cache, clock, ticks>>

Step(p) ==
  \/ ClearCache(p)
  \/ KeyCheckFail(p)
  \/ Geocode(p)
  \/ CacheCheck(p)
  \/ ReadCache(p)
  \/ Request(p)
  \/ OpenWrite(p)
  \/ Dump(p)
  \/ Format(p)
  \/ Exit(p)

\* one invocation at a time
Next == Tick \/ \E p \in SeqProcs : Start(p) \/ Step(p)

Spec == Init /\ [][Next]_vars

\* The formatter on its own: two calls with the same arguments, drawn from
\* the Celsius readings Temps and both units, at whatever the clock shows.
InitFmt ==
  /\ cache = EmptyDir
  /\ clock = 0
  /\ ticks = 0
  /\ pc = [p \in Procs |-> "format"]
  /\ \E u \in Units : args = [p \in Procs |-> [NoArgs EXCEPT !.unit = u, !.keyEnv = "k3y"]]
  /\ loc = [p \in Procs |-> get_location_id([kind |-> "found", id |-> "101010100"])]
  /\ \E t \in Temps, fl \in Temps :
       wd = [p \in Procs |-> Payload("200", "101010100", "full", t, fl)]
  /\ hist = [p \in Procs |-> Hist0]
  /\ out = [p \in Procs |-> NoOut]

NextFmt == Tick \/ \E p \in Procs : Format(p)

SpecFmt == InitFmt /\ [][NextFmt]_vars

\* a lookup with a valid key, as concurrent invocations are started
StartLookup(p) == Begin(p, {"k3y"}, {NoArg}, {"c"}, {FALSE})

\* The race takes place within one reading of the clock, long after the
\* files in the directory were written: each location has no file, a stale
\* one or a fresh one, as earlier invocations left them.
StaleFile(i) == File(0, JsonLen(Payload("200", i, "full", 20, 19)),
                     Payload("200", i, "full", 20, 19))
FreshFile(i) == File(2 * CACHE_EXPIRY - 1, JsonLen(Payload("200", i, "full", 20, 19)),
                     Payload("200", i, "full", 20, 19))
InitConc ==
  /\ cache \in [LocationIDs -> UNION {{NoFile, StaleFile(i), FreshFile(i)} : i \in LocationIDs}]
  /\ \A i \in LocationIDs : cache[i] \in {NoFile, StaleFile(i), FreshFile(i)}
  /\ clock = 2 * CACHE_EXPIRY
  /\ ticks = MaxTicks
  /\ pc = [p \in Procs |-> "idle"]
  /\ args = [p \in Procs |-> NoArgs]
  /\ loc = [p \in Procs |-> NoLoc]
  /\ wd = [p \in Procs |-> NoneData]
  /\ hist = [p \in Procs |-> Hist0]
  /\ out = [p \in Procs |-> NoOut]

\* two invocations whose steps interleave freely: nothing locks the cache
NextConc ==
  \/ \E p \in Procs :
        \/ StartLookup(p)
        \/ Geocode(p)
        \/ CacheCheck(p)
        \/ ReadCache(p)
        \/ Request(p)
        \/ OpenWrite(p)
        \/ Dump(p)
        \/ Format(p)
        \/ Exit(p)

SpecConc == InitConc /\ [][NextConc]_vars

(* ======================== claims about the code ======================= *)
\* the invocation is past the cache check of get_weather_data
Checked(p) == hist[p].stats = 1
\* get_weather_data has returned a payload to main, or main has ended
Returned(p) == pc[p] \in {"format", "done"}
\* age of the file the cache check saw, at the time of the check
SeenAge(p) == hist[p].chkNow - hist[p].seen.mtime

\* C1: the entry is served from disk, with no weather request, exactly when
\* it exists and is younger than 1800 s at the check; what is returned is
\* the stored payload and the file is left as it was; otherwise (no entry,
\* or age 1800 s or more) a weather request is sent.
C1_FreshServedFromCache ==
  \A p \in SeqProcs :
    Checked(p) =>
      /\ hist[p].hit <=> (hist[p].seen.exists /\ SeenAge(p) < 1800)
      /\ hist[p].hit =>
           /\ hist[p].wReq = 0
           /\ hist[p].writes = 0
           /\ cache[loc[p].id] = hist[p].seen
           /\ Returned(p) => (wd[p] = hist[p].seen.head /\ ~hist[p].broken)
      /\ (~hist[p].hit /\ pc[p] # "request") =>
           /\ hist[p].wReq = 1
           /\ hist[p].reads = 0

\* C1 witness: an entry of age 1799 s was served from disk
C1_Witness ==
  \E p \in SeqProcs :
    /\ pc[p] = "done" /\ hist[p].hit /\ SeenAge(p) = 1799
    /\ out[p].printed.kind = "report" /\ hist[p].wReq = 0

\* C2, as stated: a lookup that found the entry older than 1800 s sent
\* exactly one weather request and left the entry holding the fetched
\* payload, written during that call.
C2_StaleAlwaysOverwritten ==
  \A p \in SeqProcs :
    (Checked(p) /\ Returned(p) /\ hist[p].seen.exists /\ SeenAge(p) > 1800) =>
      /\ hist[p].wReq = 1
      /\ cache[loc[p].id].head = hist[p].got
      /\ ValidJson(cache[loc[p].id])
      /\ cache[loc[p].id].mtime >= hist[p].chkNow

\* C2, amended: a lookup that found the entry older than 1800 s sent exactly
\* one weather request; if that request returned a body with code '200' the
\* entry holds exactly that body, with an mtime within the call; if it did
\* not, the entry is what it was.
C2_StaleRefetched ==
  \A p \in SeqProcs :
    (Checked(p) /\ Returned(p) /\ hist[p].seen.exists /\ SeenAge(p) > 1800) =>
      /\ hist[p].wReq = 1
      /\ hist[p].got.code = "200" =>
           /\ cache[loc[p].id].head = hist[p].got
           /\ ValidJson(cache[loc[p].id])
           /\ cache[loc[p].id].mtime >= hist[p].chkNow
           /\ cache[loc[p].id].mtime <= clock
           /\ wd[p] = hist[p].got
      /\ hist[p].got.code # "200" => cache[loc[p].id] = hist[p].seen

\* C2 witness: a stale entry was replaced by a newer body
C2_Witness ==
  \E p \in SeqProcs :
    /\ pc[p] = "done" /\ hist[p].seen.exists /\ SeenAge(p) > 1800
    /\ hist[p].got.code = "200"
    /\ cache[loc[p].id].head = hist[p].got
    /\ cache[loc[p].id].mtime > hist[p].seen.mtime
    /\ hist[p].got # hist[p].seen.head

\* C3: after a weather request that failed (no body with code '200'), main
\* got None and not the stale payload, printed no report and returned 1,
\* and the file of that ID is what the cache check saw (none, if none).
C3_FailedFetchLeavesCache ==
  \A p \in SeqProcs :
    (pc[p] = "done" /\ hist[p].wReq = 1 /\ hist[p].got.code # "200") =>
      /\ wd[p] = NoneData
      /\ out[p].ret = "1"
      /\ out[p].printed = NoOutput
      /\ hist[p].writes = 0
      /\ hist[p].reads = 0
      /\ cache[loc[p].id] = hist[p].seen

\* C3 witness: the request failed while a stale entry was on disk
C3_Witness ==
  \E p \in SeqProcs :
    /\ pc[p] = "done" /\ hist[p].wReq = 1 /\ hist[p].got.code # "200"
    /\ hist[p].seen.exists /\ ValidJson(cache[loc[p].id])
    /\ out[p].exit = 1

\* C4: an invocation with --clear-cache, whatever the key and the city,
\* ends with no cache file left and exit code 0, and has sent no request;
\* a lookup that then finds no file for its ID goes to the network.
C4_ClearCache ==
  \A p \in SeqProcs :
    /\ (pc[p] = "done" /\ args[p].clear) =>
         /\ \A i \in LocationIDs : ~cache[i].exists
         /\ out[p].exit = 0
         /\ hist[p].geoReq = 0 /\ hist[p].wReq = 0
    /\ (Checked(p) /\ ~hist[p].seen.exists) =>
         /\ ~hist[p].hit
         /\ pc[p] # "request" => hist[p].wReq = 1

\* C4 witness: two files were cleared by an invocation without an API key
\* and with a city argument
C4_Witness ==
  \E p \in SeqProcs :
    /\ pc[p] = "done" /\ args[p].clear /\ hist[p].files0 = 2
    /\ args[p].keyEnv = Unset /\ args[p].city # NoArg
    /\ cache = EmptyDir /\ out[p].exit = 0

\* the API key is missing, empty or the placeholder
BadKey(p) == args[p].keyEnv \in {Unset, "", "your_api_key_here"}

\* C5: a lookup invocation (no --clear-cache) whose API key is missing,
\* empty or the placeholder never sends a request and never touches a cache
\* file, and ends with exit code 1.
C5_BadKeyExitsEarly ==
  \A p \in SeqProcs :
    (pc[p] # "idle" /\ ~args[p].clear /\ BadKey(p)) =>
      /\ hist[p].geoReq = 0 /\ hist[p].wReq = 0
      /\ hist[p].stats = 0 /\ hist[p].reads = 0 /\ hist[p].writes = 0
      /\ pc[p] \in {"main", "done"}
      /\ pc[p] = "done" => out[p].exit = 1

\* C5 witness: the placeholder key ended a lookup with exit code 1 while a
\* file was in the cache
C5_Witness ==
  \E p \in SeqProcs :
    /\ pc[p] = "done" /\ ~args[p].clear /\ args[p].keyEnv = "your_api_key_here"
    /\ out[p].exit = 1 /\ hist[p].files0 > 0

\* C6, the claim's exit codes: a lookup invocation ends with exit code 0
\* only if a weather report was rendered from a payload; a payload lacking
\* the 'now' section ends it with a non-zero exit code.
C6_ExitZeroOnlyWithReport ==
  \A p \in SeqProcs :
    (pc[p] = "done" /\ ~args[p].clear /\ out[p].exit = 0) =>
      out[p].printed.kind = "report"

\* C7: a lookup invocation with a usable key sends exactly one geocode
\* request by the time it ends (also when a fresh entry is served), at most
\* one weather request, the weather request only after the geocoder gave a
\* location ID; when the geocoder failed or found nothing there is no
\* weather request and no cache access.
C7_RequestsPerInvocation ==
  \A p \in SeqProcs :
    /\ hist[p].geoReq <= 1 /\ hist[p].wReq <= 1
    /\ (pc[p] \notin {"idle", "main"} /\ ~args[p].clear /\ ~BadKey(p)) =>
         /\ hist[p].geoReq = 1
         /\ hist[p].geo \in {"error", "notfound", "found"}
    /\ (hist[p].wReq = 1 \/ hist[p].stats + hist[p].reads + hist[p].writes > 0) =>
         /\ hist[p].geoReq = 1
         /\ hist[p].geo = "found"
         /\ loc[p].id \in LocationIDs
    /\ hist[p].geo \in {"error", "notfound"} =>
         /\ pc[p] = "done" /\ out[p].exit = 1
         /\ hist[p].wReq = 0
         /\ hist[p].stats = 0 /\ hist[p].reads = 0 /\ hist[p].writes = 0

\* C7 witness: a fresh entry was served, after one geocode request and no
\* weather request
C7_Witness ==
  \E p \in SeqProcs :
    /\ pc[p] = "done" /\ hist[p].hit /\ hist[p].geoReq = 1 /\ hist[p].wReq = 0
    /\ out[p].printed.kind = "report"

\* somebody is between open(cache_file, 'w') and the end of json.dump on i
Writing(i) == \E p \in Procs : pc[p] = "dump" /\ loc[p].id = i

\* every file holds a body with code '200' answered for its own ID, and is
\* complete JSON unless it is being written
C10_FilesAreOwn200Bodies ==
  \A i \in LocationIDs :
    cache[i].exists =>
      /\ cache[i].head # NoneData => (cache[i].head.code = "200" /\ cache[i].head.forId = i)
      /\ ~Writing(i) => ValidJson(cache[i])

\* a step changes the file of i only if it clears the cache or belongs to a
\* lookup of i that got a body with code '200'
C10_OnlyOwnFileTouched ==
  \A i \in LocationIDs :
    cache'[i] # cache[i] =>
      \E p \in Procs :
        \/ pc[p] = "main" /\ args[p].clear /\ pc'[p] = "done"
        \/ /\ loc[p].id = i /\ ~args[p].clear
           /\ hist[p].wReq = 1 /\ hist[p].got.code = "200" /\ hist[p].got.forId = i
           /\ pc[p] \in {"open", "dump"} /\ pc'[p] # pc[p]

\* C10: in every state sequential invocations reach, every cache file holds
\* a complete provider response with code '200' that a weather request for
\* that file's own ID returned (complete once its writer is through); no
\* error response is stored; and a lookup of one ID never creates, changes
\* or deletes the file of another.
C10_CacheIntegrity == []C10_FilesAreOwn200Bodies /\ [][C10_OnlyOwnFileTouched]_vars

\* C10 witness: both IDs have a file, written by different lookups, and a
\* later lookup of one of them failed at the weather request
C10_Witness ==
  \E p \in SeqProcs :
    /\ pc[p] = "done" /\ hist[p].wReq = 1 /\ hist[p].got.code # "200"
    /\ \A i \in LocationIDs : ValidJson(cache[i]) /\ cache[i].head.forId = i
    /\ \E i, j \in LocationIDs : cache[i].mtime # cache[j].mtime

\* a value given in tenths, written with exactly one decimal place
OneDecimal(tenths) ==
  IF tenths < 0
    THEN "-" \o ToString((0 - tenths) \div 10) \o "." \o ToString((0 - tenths) % 10)
    ELSE ToString(tenths \div 10) \o "." \o ToString(tenths % 10)

\* F = C*9/5+32, in tenths of a degree
ToFahrenheit(c) == (c * 90) \div 5 + 320

\* the report of a finished call of the formatter
Report(p) == out[p].printed
Formatted(p) == pc[p] = "done" /\ Report(p).kind = "report"

\* C9, as stated: the formatter reads only its arguments, so two calls with
\* the same payload, name and unit return the same text.
C9_SameArgumentsSameOutput ==
  \A p, q \in Procs :
    (Formatted(p) /\ Formatted(q) /\ wd[p] = wd[q] /\ loc[p] = loc[q] /\ args[p] = args[q])
      => Report(p) = Report(q)

\* C9, amended: with unit f the temperature and the feels-like value are
\* shown as C*9/5+32 with exactly one decimal place (20 and 19 give 68.0 and
\* 66.2), with unit c as the Celsius values; humidity and wind speed are not
\* converted; the text depends on the arguments and, in its header, on the
\* wall clock at the time of the call (to the minute), on nothing else; the
\* cache is not changed.
C9_Formatter ==
  /\ cache = EmptyDir
  /\ \A p \in Procs :
       Formatted(p) =>
         /\ args[p].unit = "f" =>
              /\ Report(p).temp = OneDecimal(ToFahrenheit(wd[p].temp)) \o "F"
              /\ Report(p).feels = OneDecimal(ToFahrenheit(wd[p].feelsLike)) \o "F"
         /\ args[p].unit = "c" =>
              /\ Report(p).temp = OneDecimal(wd[p].temp * 10) \o "C"
              /\ Report(p).feels = IF wd[p].feelsLike < 0
                                     THEN "-" \o ToString(0 - wd[p].feelsLike) \o "C"
                                     ELSE ToString(wd[p].feelsLike) \o "C"
         /\ (args[p].unit = "f" /\ wd[p].temp = 20 /\ wd[p].feelsLike = 19) =>
              (Report(p).temp = "68.0F" /\ Report(p).feels = "66.2F")
         /\ Report(p).humidity = "50%"
         /\ Report(p).wind = "10 km/h"
         /\ Report(p).time \in 0 .. (clock \div 60)
         /\ out[p].ret = "0"
  /\ \A p, q \in Procs :
       (Formatted(p) /\ Formatted(q) /\ wd[p] = wd[q] /\ loc[p] = loc[q] /\ args[p] = args[q])
         => [Report(p) EXCEPT !.time = 0] = [Report(q) EXCEPT !.time = 0]

\* C9 witness: temp=20, feelsLike=19 and unit f were rendered as 68.0 and 66.2
C9_Witness ==
  \E p \in Procs :
    /\ Formatted(p) /\ args[p].unit = "f" /\ wd[p].temp = 20 /\ wd[p].feelsLike = 19
    /\ Report(p).temp = "68.0F" /\ Report(p).feels = "66.2F"
    /\ Report(p).humidity = "50%"

\* p and q, in flight together, looked up the same ID, both found its file
\* missing or stale, both got a body with code '200' and both have written
BothRefetched(p, q) ==
  /\ p # q
  /\ loc[p].id \in LocationIDs /\ loc[q].id = loc[p].id
  /\ Checked(p) /\ Checked(q) /\ ~hist[p].hit /\ ~hist[q].hit
  /\ Returned(p) /\ Returned(q)
  /\ hist[p].got.code = "200" /\ hist[q].got.code = "200"

\* C8, as stated: when two invocations both found the entry missing or
\* stale, both sent a weather request and the final entry is the one of the
\* invocation that wrote last.
C8_LastWriterWins ==
  \A p, q \in Procs :
    (BothRefetched(p, q) /\ hist[p].last) =>
      /\ hist[p].wReq = 1 /\ hist[q].wReq = 1
      /\ ValidJson(cache[loc[p].id])
      /\ cache[loc[p].id].head = hist[p].got

\* C8, amended: when two invocations both found the entry missing or stale,
\* both sent a weather request, and the final file begins with the text of
\* the invocation that wrote last; it is exactly that invocation's entry
\* whenever its text is not shorter than the other's, and otherwise may be
\* that text followed by the rest of the other's.  An invocation that read
\* an incomplete file had judged it fresh, and ends with an uncaught error.
C8_RacingWriters ==
  /\ \A p, q \in Procs :
       (BothRefetched(p, q) /\ hist[p].last) =>
         /\ hist[p].wReq = 1 /\ hist[q].wReq = 1
         /\ ~hist[q].last
         /\ cache[loc[p].id].head = hist[p].got
         /\ cache[loc[p].id].size \in {JsonLen(hist[p].got), JsonLen(hist[q].got)}
         /\ cache[loc[p].id].size >= JsonLen(hist[p].got)
         /\ JsonLen(hist[p].got) >= JsonLen(hist[q].got) => ValidJson(cache[loc[p].id])
  /\ \A p \in Procs :
       hist[p].broken =>
         /\ hist[p].hit /\ hist[p].wReq = 0
         /\ pc[p] = "done" /\ out[p].ret = "raise" /\ out[p].exit = 1

\* C8 witness: q judged the file fresh by the mtime p's open(.., 'w') had
\* just given it, and read it empty, while p has not yet written its text
C8_Witness ==
  \E p, q \in Procs :
    /\ p # q /\ loc[p].id = loc[q].id
    /\ pc[p] = "dump" /\ cache[loc[p].id].size = 0
    /\ hist[q].hit /\ hist[q].seen.size = 0 /\ hist[q].seen.mtime = clock
    /\ hist[q].broken /\ pc[q] = "done"

====
